---- MODULE Spec2Model ----
(***************************************************************************)
(* A model of Config.FanIn (package fan, fan-in.go): the validation of the *)
(* channel arguments, the worker goroutine spawned per input channel, the  *)
(* SelectFunc it calls in a loop, the WaitGroup and the goroutine that     *)
(* closes the output channel.  The caller is modelled by its three         *)
(* capabilities: it closes the done channel, it owns (and may close) the   *)
(* input channels, and it receives from the returned output channel.       *)
(***************************************************************************)
EXTENDS Integers, Sequences, FiniteSets, Bags, TLC

\* ------------------------------------------------------------------ bounds
\* the longest argument list handed to FanIn
MaxSources == 2
\* the most elements the input channels carry together
MaxElems == 3

\* ------------------------------------------------------- the input channels
\* The channels the caller owns.  Channels 1 and 2 carry int, channel 3
\* carries string.
Chans == {1, 2, 3}

ChanElem(c) == IF c = 3 THEN "string" ELSE "int"

\* The caller's data: a channel carries the values 1..n in this order, so
\* two channels carry equal values and their union is a proper multiset.
Contents(n) == [i \in 1..n |-> i]

\* reflect.ChanDir
BothDir == "BothDir"
RecvDir == "RecvDir"
SendDir == "SendDir"

\* One `interface{}` argument of FanIn: a channel handle with a direction, a
\* value that is no channel (an int), or the nil interface.
ChanArg(d, c) == [kind |-> "chan", dir |-> d, ch |-> c]
IntArg == [kind |-> "int", dir |-> "none", ch |-> 0]
NilArg == [kind |-> "nil", dir |-> "none", ch |-> 0]

\* The values the caller has at hand for the arguments: channel 1 as
\* `chan int`, channel 2 as `<-chan int`, channel 3 as `chan string`, channels
\* 1 and 3 as send-only channels, an int and nil.
ArgValues ==
  {ChanArg(BothDir, 1), ChanArg(RecvDir, 2), ChanArg(BothDir, 3),
   ChanArg(SendDir, 1), ChanArg(SendDir, 3), IntArg, NilArg}

ArgLists == UNION {[1..n -> ArgValues] : n \in 0..MaxSources}

\* reflect.TypeOf(nil)
NilType == "nil"

NoError == [index |-> 0, reason |-> "none"]

\* ------------------------------------------------------------------- state
VARIABLES
  args,        \* the channels ...interface{} argument of FanIn
  source,      \* per input channel: all the elements its owner puts on it
  selectFunc,  \* Config.SelectFunc: "nil" or "closure"
  fanPc,       \* where the call of FanIn stands
  err,         \* the value FanIn panicked with
  elementType, \* FanIn's local elementType
  output,      \* "none" until reflect.MakeChan, then "made"
  outClosed,   \* the output channel is closed
  closeCount,  \* how many times output.Close() has run
  wg,          \* the sync.WaitGroup counter
  spawned,     \* how many worker goroutines the `go` loop has launched
  wpc,         \* each worker goroutine's position
  loopBody,    \* each worker's loopBody
  inChan,      \* each worker's inChan (a channel of Chans, 0 before it starts)
  inDir,       \* the direction of the handle each worker holds as inChan
  held,        \* the element a worker received and has not yet sent
  closerPc,    \* the closing goroutine's position
  done,        \* the done channel is closed
  chanQ,       \* per input channel: the elements still to be received
  chanClosed,  \* per input channel: closed by its owner
  taken,       \* per input channel: how many elements were received from it
  delivered,   \* what the caller received from the output channel, in order
  lastRead,    \* the outcome of the caller's latest receive on the output
  handle,      \* the direction of the channel FanIn returned, "none" before
  afterDone    \* history: the elements the caller received with done closed,
               \* -1 throughout when the behaviour does not count them

vars == <<args, source, selectFunc, fanPc, err, elementType, output, outClosed,
          closeCount, wg, spawned, wpc, loopBody, inChan, inDir, held, closerPc, done,
          chanQ, chanClosed, taken, delivered, lastRead, handle, afterDone>>

Workers == 1..MaxSources

NoElem == [ch |-> 0, idx |-> 0, val |-> 0]

\* ------------------------------------------------------------- validation
\* ValidateFrom with line 592 run for every channel and line 593 never: the
\* element type is taken from each channel instead of compared
RECURSIVE ValidateFromNoCompare(_, _, _)
ValidateFromNoCompare(as, i, et) ==
  IF i > Len(as) THEN [ok |-> TRUE, elementType |-> et, err |-> NoError]
  ELSE IF as[i].kind = "nil"
    THEN [ok |-> FALSE, elementType |-> et, err |-> [index |-> 0, reason |-> "nilDereference"]]
  ELSE IF as[i].kind # "chan"
    THEN [ok |-> FALSE, elementType |-> et, err |-> [index |-> i, reason |-> "notChannel"]]
  ELSE IF as[i].dir # BothDir /\ as[i].dir # RecvDir
    THEN [ok |-> FALSE, elementType |-> et, err |-> [index |-> i, reason |-> "noReceive"]]
  ELSE ValidateFromNoCompare(as, i + 1, ChanElem(as[i].ch))

\* ValidateFrom with line 586 accepting reflect.BothDir alone: a
\* receive-only channel is rejected too
RECURSIVE ValidateFromBothDirOnly(_, _, _)
ValidateFromBothDirOnly(as, i, et) ==
  IF i > Len(as) THEN [ok |-> TRUE, elementType |-> et, err |-> NoError]
  ELSE IF as[i].kind = "nil"
    THEN [ok |-> FALSE, elementType |-> et, err |-> [index |-> 0, reason |-> "nilDereference"]]
  ELSE IF as[i].kind # "chan"
    THEN [ok |-> FALSE, elementType |-> et, err |-> [index |-> i, reason |-> "notChannel"]]
  ELSE IF as[i].dir # BothDir
    THEN [ok |-> FALSE, elementType |-> et, err |-> [index |-> i, reason |-> "noReceive"]]
  ELSE IF et = NilType
    THEN ValidateFromBothDirOnly(as, i + 1, ChanElem(as[i].ch))
  ELSE IF et # ChanElem(as[i].ch)
    THEN [ok |-> FALSE, elementType |-> et, err |-> [index |-> i, reason |-> "elementType"]]
  ELSE ValidateFromBothDirOnly(as, i + 1, et)

\* FanIn's validation loop from argument i on, elementType being et: the
\* first offending argument ends it with a panic.
RECURSIVE ValidateFrom(_, _, _)
ValidateFrom(as, i, et) ==
  IF i > Len(as) THEN [ok |-> TRUE, elementType |-> et, err |-> NoError]
  ELSE IF as[i].kind = "nil"
    THEN \* reflect.TypeOf(nil) is the nil Type: t.Kind() dereferences nil,
         \* a runtime error that names no argument
         [ok |-> FALSE, elementType |-> et, err |-> [index |-> 0, reason |-> "nilDereference"]]
  ELSE IF as[i].kind # "chan"
    THEN [ok |-> FALSE, elementType |-> et, err |-> [index |-> i, reason |-> "notChannel"]]
  ELSE IF as[i].dir # BothDir /\ as[i].dir # RecvDir
    THEN [ok |-> FALSE, elementType |-> et, err |-> [index |-> i, reason |-> "noReceive"]]
  ELSE IF et = NilType
    THEN ValidateFrom(as, i + 1, ChanElem(as[i].ch))
  ELSE IF et # ChanElem(as[i].ch)
    THEN [ok |-> FALSE, elementType |-> et, err |-> [index |-> i, reason |-> "elementType"]]
  ELSE ValidateFrom(as, i + 1, et)

\* Validate without the length check of line 574
ValidateNoLengthCheck(as) == ValidateFrom(as, 1, NilType)

\* FanIn up to the creation of the output channel: the length check, then
\* the loop.
Validate(as) ==
  IF Len(as) < 1
    THEN [ok |-> FALSE, elementType |-> NilType, err |-> [index |-> 0, reason |-> "noChannels"]]
    ELSE ValidateFrom(as, 1, NilType)

\* the channels an argument list names
UsedChans(as) == {as[i].ch : i \in {j \in 1..Len(as) : as[j].kind = "chan"}}

\* how many elements the input channels carry together
TotalLen(src) == Len(src[1]) + Len(src[2]) + Len(src[3])

\* ------------------------------------------------------------------- Init
\* The caller has built its channels, its done channel and a Config, and is
\* about to call FanIn with one of the given values as Config.SelectFunc.
\* Channels that are no argument carry nothing.
InitWith(selectFuncs, counting) ==
  /\ args \in ArgLists
  /\ selectFunc \in selectFuncs
  /\ fanPc = "call"
  /\ err = NoError
  /\ elementType = NilType
  /\ output = "none"
  /\ outClosed = FALSE
  /\ closeCount = 0
  /\ wg = 0
  /\ spawned = 0
  /\ wpc = [w \in Workers |-> "none"]
  /\ loopBody = [w \in Workers |-> "nil"]
  /\ inChan = [w \in Workers |-> 0]
  /\ inDir = [w \in Workers |-> "none"]
  /\ held = [w \in Workers |-> NoElem]
  /\ closerPc = "none"
  /\ done = FALSE
  /\ source \in [Chans -> {Contents(n) : n \in 0..MaxElems}]
  /\ TotalLen(source) <= MaxElems
  /\ \A c \in Chans : c \notin UsedChans(args) => source[c] = <<>>
  /\ chanQ = source
  /\ chanClosed = [c \in Chans |-> FALSE]
  /\ taken = [c \in Chans |-> 0]
  /\ delivered = <<>>
  /\ lastRead = "none"
  /\ handle = "none"
  /\ afterDone = IF counting THEN 0 ELSE -1

\* Config.SelectFunc left nil, or a SelectFunc of the package (Ints, ...)
Init == InitWith({"nil", "closure"}, FALSE)

\* ... or the SelectFunc of the README's usage section
InitReadme == InitWith({"nil", "closure", "readme"}, FALSE)

\* the callers of Init, the elements received after close(done) counted
InitCounting == InitWith({"nil", "closure"}, TRUE)

\* ------------------------------------------------------------------ FanIn
\* the check of each channel done in the loop that launches its worker: on
\* an offending argument the workers of the arguments before it are running
FanInCheckLaunching ==
  /\ fanPc = "call"
  /\ LET v == Validate(args) IN
       IF v.ok
         THEN /\ fanPc' = "make"
              /\ elementType' = v.elementType
              /\ err' = err
              /\ UNCHANGED <<output, wg, spawned, wpc, loopBody, inChan, inDir>>
         ELSE /\ fanPc' = "panicked"
              /\ err' = v.err
              /\ elementType' = elementType
              /\ output' = IF v.err.index > 1 THEN "made" ELSE output
              /\ wg' = IF v.err.index > 1 THEN Len(args) ELSE wg
              /\ spawned' = IF v.err.index > 1 THEN v.err.index - 1 ELSE spawned
              /\ wpc' = [w \in Workers |-> IF w < v.err.index THEN "start" ELSE "none"]
              /\ loopBody' = [w \in Workers |-> IF w < v.err.index THEN selectFunc ELSE "nil"]
              /\ inChan' = [w \in Workers |-> IF w < v.err.index THEN args[w].ch ELSE 0]
              /\ inDir' = [w \in Workers |-> IF w < v.err.index THEN args[w].dir ELSE "none"]
  /\ UNCHANGED <<args, source, selectFunc, outClosed, closeCount, held, closerPc, done,
                 chanQ, chanClosed, taken, delivered, lastRead, handle, afterDone>>

\* lines 574-598: the configuration check
FanInCheck ==
  /\ fanPc = "call"
  /\ LET v == Validate(args) IN
       IF v.ok
         THEN /\ fanPc' = "make"
              /\ elementType' = v.elementType
              /\ err' = err
         ELSE /\ fanPc' = "panicked"
              /\ err' = v.err
              /\ elementType' = elementType
  /\ UNCHANGED <<args, source, selectFunc, output, outClosed, closeCount, wg, spawned, wpc,
                 loopBody, inChan, inDir, held, closerPc, done, chanQ, chanClosed, taken,
                 delivered, lastRead, handle, afterDone>>

\* wg.Add called with one more than the number of channels
AddCountLong(as) == Len(as) + 1

\* wg.Add called with one less than the number of channels
AddCountShort(as) == Len(as) - 1

\* line 601: the delta of wg.Add
AddCount(as) == Len(as)

\* lines 599-601: the output channel with capacity 0, and wg.Add(len(channels))
FanInMake ==
  /\ fanPc = "make"
  /\ output' = "made"
  /\ wg' = wg + AddCount(args)
  /\ fanPc' = "spawn"
  /\ UNCHANGED <<args, source, selectFunc, err, elementType, outClosed, closeCount, spawned,
                 wpc, loopBody, inChan, inDir, held, closerPc, done, chanQ, chanClosed,
                 taken, delivered, lastRead, handle, afterDone>>

\* the goroutine reading the loop variable itself instead of its argument:
\* every worker sees the channel of the last iteration
WorkerChanCaptured(w) == args[Len(args)].ch

\* lines 604 and 620: the channel handed to the w-th goroutine as inChan, the
\* value of the loop variable in the iteration that launches it
WorkerChan(w) == args[w].ch

\* lines 604-621: one `go` statement of the loop over channels; the goroutine
\* gets c.SelectFunc and the channel as its arguments
SpawnWorker ==
  /\ fanPc = "spawn"
  /\ spawned < Len(args)
  /\ LET w == spawned + 1 IN
       /\ spawned' = w
       /\ wpc' = [wpc EXCEPT ![w] = "start"]
       /\ loopBody' = [loopBody EXCEPT ![w] = selectFunc]
       /\ inChan' = [inChan EXCEPT ![w] = WorkerChan(w)]
       /\ inDir' = [inDir EXCEPT ![w] = args[w].dir]
  /\ UNCHANGED <<args, source, selectFunc, fanPc, err, elementType, output, outClosed,
                 closeCount, wg, held, closerPc, done, chanQ, chanClosed, taken,
                 delivered, lastRead, handle, afterDone>>

\* lines 623-626: the `go` statement of the closing goroutine
SpawnCloser ==
  /\ fanPc = "spawn"
  /\ spawned = Len(args)
  /\ closerPc' = "wait"
  /\ fanPc' = "return"
  /\ UNCHANGED <<args, source, selectFunc, err, elementType, output, outClosed, closeCount,
                 wg, spawned, wpc, loopBody, inChan, inDir, held, done, chanQ, chanClosed,
                 taken, delivered, lastRead, handle, afterDone>>

\* the output channel returned as reflect.MakeChan made it
ReturnedDirAsMade == BothDir

\* line 628: the direction output is converted to before it is returned
ReturnedDir == RecvDir

\* line 628: the caller gets the output channel, receive-only
FanInReturn ==
  /\ fanPc = "return"
  /\ fanPc' = "returned"
  /\ handle' = ReturnedDir
  /\ UNCHANGED <<args, source, selectFunc, err, elementType, output, outClosed, closeCount,
                 wg, spawned, wpc, loopBody, inChan, inDir, held, closerPc, done, chanQ,
                 chanClosed, taken, delivered, lastRead, afterDone>>

\* ---------------------------------------------------------------- channels
\* a receive on channel c can proceed with an element
CanReceive(c) == chanQ[c] # <<>>

\* an empty channel taken for a closed one
CanReceiveClosedWhenEmpty(c) == chanQ[c] = <<>>

\* a receive on channel c can proceed with more = false: closed and drained
CanReceiveClosed(c) == chanQ[c] = <<>> /\ chanClosed[c]

\* a receive that yields the zero value in place of the element
NextElemZero(c) == [ch |-> c, idx |-> taken[c] + 1, val |-> 0]

\* the element the next receive on channel c yields
NextElem(c) == [ch |-> c, idx |-> taken[c] + 1, val |-> Head(chanQ[c])]

\* ------------------------------------------------------------------ worker
\* the test of line 609 inverted: the fallback replaces a SelectFunc that was
\* given and a missing one stays missing
WorkerStartInverted(w) ==
  /\ wpc[w] = "start"
  /\ inDir' = [inDir EXCEPT ![w] = RecvDir]
  /\ loopBody' = [loopBody EXCEPT ![w] = IF loopBody[w] # "nil" THEN "reflect" ELSE loopBody[w]]
  /\ wpc' = [wpc EXCEPT ![w] = "loop"]
  /\ UNCHANGED <<args, source, selectFunc, fanPc, err, elementType, output, outClosed,
                 closeCount, wg, spawned, inChan, held, closerPc, done, chanQ,
                 chanClosed, taken, delivered, lastRead, handle, afterDone>>

\* lines 605-614: the goroutine converts inChan to receive-only, falls back
\* on reflectiveSelectFunc if it got no SelectFunc, defers wg.Done()
WorkerStart(w) ==
  /\ wpc[w] = "start"
  /\ inDir' = [inDir EXCEPT ![w] = RecvDir]
  /\ loopBody' = [loopBody EXCEPT ![w] = IF loopBody[w] = "nil" THEN "reflect" ELSE loopBody[w]]
  /\ wpc' = [wpc EXCEPT ![w] = "loop"]
  /\ UNCHANGED <<args, source, selectFunc, fanPc, err, elementType, output, outClosed,
                 closeCount, wg, spawned, inChan, held, closerPc, done, chanQ,
                 chanClosed, taken, delivered, lastRead, handle, afterDone>>

\* The channel type a SelectFunc asserts its `in` to be: `<-chan int` in the
\* SelectFuncs of the package, `chan MyCustomType` in the README's.
AssertedDir(f) == IF f = "readme" THEN BothDir ELSE RecvDir

\* the cases of the select statement of a typed SelectFunc, and what each does
ClosureCases(w) ==
  \/ \* case <-done: return true
     /\ done
     /\ wpc' = [wpc EXCEPT ![w] = "cancelled"]
     /\ UNCHANGED <<held, chanQ, taken>>
  \/ \* case element, more := <-in, !more: return true
     /\ CanReceiveClosed(inChan[w])
     /\ wpc' = [wpc EXCEPT ![w] = "exhausted"]
     /\ UNCHANGED <<held, chanQ, taken>>
  \/ \* case element, more := <-in, more
     /\ CanReceive(inChan[w])
     /\ held' = [held EXCEPT ![w] = NextElem(inChan[w])]
     /\ chanQ' = [chanQ EXCEPT ![inChan[w]] = Tail(@)]
     /\ taken' = [taken EXCEPT ![inChan[w]] = @ + 1]
     /\ wpc' = [wpc EXCEPT ![w] = "send"]

\* The select statement of a typed SelectFunc (Ints, lines 306-317).  On
\* entering it the channel operands are evaluated: the type assertion on
\* `in` panics unless `in` holds a channel of exactly the asserted type.
\* Then one of the ready cases is taken.  A received element is kept for the
\* send that follows the receive inside the case.
ClosureSelectFunc(w) ==
  /\ wpc[w] = "loop"
  /\ loopBody[w] \in {"closure", "readme"}
  /\ IF inDir[w] # AssertedDir(loopBody[w])
       THEN /\ wpc' = [wpc EXCEPT ![w] = "panic"]
            /\ UNCHANGED <<held, chanQ, taken>>
       ELSE ClosureCases(w)
  /\ UNCHANGED <<args, source, selectFunc, fanPc, err, elementType, output, outClosed,
                 closeCount, wg, spawned, loopBody, inChan, inDir, closerPc, done,
                 chanClosed, delivered, lastRead, handle, afterDone>>

\* reflect.Select over the two cases of reflectiveSelectFunc (lines 536-561)
\* and the switch on the case it chose
DoneChanClosed == 0
InputChanRead == 1

\* reflect.Select choosing the done case whenever it is ready
ReadyCasesDoneFirst(w) ==
  IF done THEN {DoneChanClosed}
  ELSE IF CanReceive(inChan[w]) \/ CanReceiveClosed(inChan[w]) THEN {InputChanRead} ELSE {}

\* reflect.Select given a nil channel in place of done: that case is never
\* ready
ReadyCasesNoDone(w) ==
  IF CanReceive(inChan[w]) \/ CanReceiveClosed(inChan[w]) THEN {InputChanRead} ELSE {}

\* the cases reflect.Select may choose for worker w: the ready ones
ReadyCases(w) ==
  (IF done THEN {DoneChanClosed} ELSE {})
    \cup (IF CanReceive(inChan[w]) \/ CanReceiveClosed(inChan[w]) THEN {InputChanRead} ELSE {})

\* lines 550-560: reflect.Select and the switch on the case it chose
ReflectCases(w) ==
  \E caseChosen \in ReadyCases(w) :
    IF caseChosen = DoneChanClosed
      THEN /\ wpc' = [wpc EXCEPT ![w] = "cancelled"]
           /\ UNCHANGED <<held, chanQ, taken>>
      ELSE IF ~CanReceive(inChan[w])
        THEN \* !more
             /\ wpc' = [wpc EXCEPT ![w] = "exhausted"]
             /\ UNCHANGED <<held, chanQ, taken>>
        ELSE /\ held' = [held EXCEPT ![w] = NextElem(inChan[w])]
             /\ chanQ' = [chanQ EXCEPT ![inChan[w]] = Tail(@)]
             /\ taken' = [taken EXCEPT ![inChan[w]] = @ + 1]
             /\ wpc' = [wpc EXCEPT ![w] = "send"]

reflectiveSelectFunc(w) ==
  /\ wpc[w] = "loop"
  /\ loopBody[w] = "reflect"
  /\ ReflectCases(w)
  /\ UNCHANGED <<args, source, selectFunc, fanPc, err, elementType, output, outClosed,
                 closeCount, wg, spawned, loopBody, inChan, inDir, closerPc, done,
                 chanClosed, delivered, lastRead, handle, afterDone>>

\* the caller holds the output channel and can receive from it
ReaderReady == fanPc = "returned"

\* the SelectFunc returning true after it forwarded an element
ReturnAfterSendStops == TRUE

\* lines 317 and 560: what the SelectFunc returns after the send
ReturnAfterSend == FALSE

\* the output made with a buffer: the send completes with no receiver, the
\* element waits in the channel
SendBuffered(w) ==
  /\ wpc[w] = "send"
  /\ IF outClosed
       THEN /\ wpc' = [wpc EXCEPT ![w] = "panic"]
            /\ UNCHANGED <<held, delivered, lastRead, afterDone>>
       ELSE /\ held' = [held EXCEPT ![w] = NoElem]
            /\ wpc' = [wpc EXCEPT ![w] = "loop"]
            /\ UNCHANGED <<delivered, lastRead, afterDone>>
  /\ UNCHANGED <<args, source, selectFunc, fanPc, err, elementType, output, outClosed,
                 closeCount, wg, spawned, loopBody, inChan, inDir, closerPc, done, chanQ,
                 chanClosed, taken, handle>>

\* the send placed in a select beside `case <-done`: a worker holding an
\* element drops it and returns true once done is closed
SendRacedWithDone(w) ==
  /\ wpc[w] = "send"
  /\ IF outClosed
       THEN /\ wpc' = [wpc EXCEPT ![w] = "panic"]
            /\ UNCHANGED <<held, delivered, lastRead, afterDone>>
       ELSE \/ /\ ReaderReady
               /\ afterDone' = IF done /\ afterDone >= 0 THEN afterDone + 1 ELSE afterDone
               /\ delivered' = Append(delivered, held[w])
               /\ lastRead' = "element"
               /\ held' = [held EXCEPT ![w] = NoElem]
               /\ wpc' = [wpc EXCEPT ![w] = "loop"]
            \/ /\ done
               /\ held' = [held EXCEPT ![w] = NoElem]
               /\ wpc' = [wpc EXCEPT ![w] = "cancelled"]
               /\ UNCHANGED <<delivered, lastRead, afterDone>>
  /\ UNCHANGED <<args, source, selectFunc, fanPc, err, elementType, output, outClosed,
                 closeCount, wg, spawned, loopBody, inChan, inDir, closerPc, done, chanQ,
                 chanClosed, taken, handle>>

\* The send on the output channel, `out.(chan T) <- element` or
\* out.Send(elem).  The channel has capacity 0: the send completes together
\* with a receive of the caller, and the SelectFunc then returns false.  A
\* send on a closed channel panics.
Send(w) ==
  /\ wpc[w] = "send"
  /\ IF outClosed
       THEN /\ wpc' = [wpc EXCEPT ![w] = "panic"]
            /\ UNCHANGED <<held, delivered, lastRead, afterDone>>
       ELSE /\ ReaderReady
            /\ afterDone' = IF done /\ afterDone >= 0 THEN afterDone + 1 ELSE afterDone
            /\ delivered' = Append(delivered, held[w])
            /\ lastRead' = "element"
            /\ held' = [held EXCEPT ![w] = NoElem]
            /\ wpc' = [wpc EXCEPT ![w] = IF ReturnAfterSend THEN "exhausted" ELSE "loop"]
  /\ UNCHANGED <<args, source, selectFunc, fanPc, err, elementType, output, outClosed,
                 closeCount, wg, spawned, loopBody, inChan, inDir, closerPc, done, chanQ,
                 chanClosed, taken, handle>>

\* a worker that closes its input channel when it stops
WorkerDoneClosingInput(w) ==
  /\ wpc[w] \in {"cancelled", "exhausted"}
  /\ wg' = wg - 1
  /\ wpc' = [wpc EXCEPT ![w] = "stopped"]
  /\ chanClosed' = [chanClosed EXCEPT ![inChan[w]] = TRUE]
  /\ UNCHANGED <<args, source, selectFunc, fanPc, err, elementType, output, outClosed,
                 closeCount, spawned, loopBody, inChan, inDir, held, closerPc, done, chanQ,
                 taken, delivered, lastRead, handle, afterDone>>

\* a worker that calls wg.Done() itself and has it deferred as well
WorkerDoneTwice(w) ==
  /\ wpc[w] \in {"cancelled", "exhausted"}
  /\ wg' = wg - 2
  /\ wpc' = [wpc EXCEPT ![w] = "stopped"]
  /\ UNCHANGED <<args, source, selectFunc, fanPc, err, elementType, output, outClosed,
                 closeCount, spawned, loopBody, inChan, inDir, held, closerPc, done, chanQ,
                 chanClosed, taken, delivered, lastRead, handle, afterDone>>

\* lines 614-619: loopBody returned true, the loop breaks and the deferred
\* wg.Done() runs
WorkerDone(w) ==
  /\ wpc[w] \in {"cancelled", "exhausted"}
  /\ wg' = wg - 1
  /\ wpc' = [wpc EXCEPT ![w] = "stopped"]
  /\ UNCHANGED <<args, source, selectFunc, fanPc, err, elementType, output, outClosed,
                 closeCount, spawned, loopBody, inChan, inDir, held, closerPc, done, chanQ,
                 chanClosed, taken, delivered, lastRead, handle, afterDone>>

\* ------------------------------------------------- the closing goroutine
\* wg.Wait() returning while one worker is still counted
WaitReturnsEarly == wg <= 1

\* wg.Wait() returns when the counter is zero
WaitReturns == wg = 0

\* line 625
CloserWait ==
  /\ closerPc = "wait"
  /\ WaitReturns
  /\ closerPc' = "close"
  /\ UNCHANGED <<args, source, selectFunc, fanPc, err, elementType, output, outClosed,
                 closeCount, wg, spawned, wpc, loopBody, inChan, inDir, held, done, chanQ,
                 chanClosed, taken, delivered, lastRead, handle, afterDone>>

\* line 624: the deferred output.Close()
CloserClose ==
  /\ closerPc = "close"
  /\ outClosed' = TRUE
  /\ closeCount' = closeCount + 1
  /\ closerPc' = "done"
  /\ UNCHANGED <<args, source, selectFunc, fanPc, err, elementType, output, wg, spawned,
                 wpc, loopBody, inChan, inDir, held, done, chanQ, chanClosed, taken,
                 delivered, lastRead, handle, afterDone>>

\* -------------------------------------------------------------- the caller
\* close(done)
Cancel ==
  /\ ~done
  /\ done' = TRUE
  /\ UNCHANGED <<args, source, selectFunc, fanPc, err, elementType, output, outClosed,
                 closeCount, wg, spawned, wpc, loopBody, inChan, inDir, held, closerPc,
                 chanQ, chanClosed, taken, delivered, lastRead, handle, afterDone>>

\* close(in) by the owner of an input channel; what the channel still holds
\* stays receivable
CloseSource(c) ==
  /\ c \in UsedChans(args)
  /\ ~chanClosed[c]
  /\ chanClosed' = [chanClosed EXCEPT ![c] = TRUE]
  /\ UNCHANGED <<args, source, selectFunc, fanPc, err, elementType, output, outClosed,
                 closeCount, wg, spawned, wpc, loopBody, inChan, inDir, held, closerPc,
                 done, chanQ, taken, delivered, lastRead, handle, afterDone>>

\* `elem := <-out` on the closed output channel, the zero value taken for an
\* element
ReadClosedAsElement ==
  /\ ReaderReady
  /\ outClosed
  /\ lastRead' = "element"
  /\ delivered' = Append(delivered, NoElem)
  /\ UNCHANGED <<args, source, selectFunc, fanPc, err, elementType, output, outClosed,
                 closeCount, wg, spawned, wpc, loopBody, inChan, inDir, held, closerPc,
                 done, chanQ, chanClosed, taken, handle, afterDone>>

\* `_, more := <-out` on the closed output channel: more is false, no element
ReadClosed ==
  /\ ReaderReady
  /\ outClosed
  /\ lastRead' = "closed"
  /\ UNCHANGED <<args, source, selectFunc, fanPc, err, elementType, output, outClosed,
                 closeCount, wg, spawned, wpc, loopBody, inChan, inDir, held, closerPc,
                 done, chanQ, chanClosed, taken, delivered, handle, afterDone>>

\* ------------------------------------------------------------ specification
WorkerStep(w) ==
  \/ WorkerStart(w)
  \/ ClosureSelectFunc(w)
  \/ reflectiveSelectFunc(w)
  \/ WorkerDone(w)

Next ==
  \/ FanInCheck
  \/ FanInMake
  \/ SpawnWorker
  \/ SpawnCloser
  \/ FanInReturn
  \/ \E w \in Workers : WorkerStep(w)
  \/ \E w \in Workers : Send(w)
  \/ CloserWait
  \/ CloserClose
  \/ Cancel
  \/ \E c \in Chans : CloseSource(c)
  \/ ReadClosed

Spec == Init /\ [][Next]_vars

\* the steps of the goroutine that called FanIn, one enabled at a time
FanInStep == FanInCheck \/ FanInMake \/ SpawnWorker \/ SpawnCloser \/ FanInReturn

\* the steps of the closing goroutine
CloserStep == CloserWait \/ CloserClose

\* one receive of the caller on the output channel: it takes the element of
\* a worker waiting in its send, or finds the channel closed
Receive == (\E w \in Workers : Send(w)) \/ ReadClosed

\* The goroutines of FanIn are scheduled: a step of FanIn, of a worker or of
\* the closing goroutine that stays possible is taken.  Nothing obliges the
\* caller to receive from the output channel, to close done or to close its
\* input channels.
EngineFairness ==
  /\ WF_vars(FanInStep)
  /\ \A w \in Workers : WF_vars(WorkerStep(w))
  /\ WF_vars(CloserStep)

SpecFair == Spec /\ EngineFairness

\* the caller keeps receiving from the output channel
ReaderFairness == WF_vars(Receive)

SpecDrain == Spec /\ EngineFairness /\ ReaderFairness

\* the caller keeps receiving and the owners close their input channels
SpecClosing ==
  Spec /\ EngineFairness /\ ReaderFairness /\ WF_vars(\E c \in Chans : CloseSource(c))

\* worker w's select taking the done case
StopOnDone(w) == WorkerStep(w) /\ wpc'[w] = "cancelled"

\* the caller keeps receiving, and a select that finds the done case ready
\* again and again takes it in the end
SpecStrong ==
  Spec /\ EngineFairness /\ ReaderFairness /\ \A w \in Workers : SF_vars(StopOnDone(w))

\* the callers that may also configure the SelectFunc of the README
SpecReadme == InitReadme /\ [][Next]_vars

\* Spec with the history of the deliveries after close(done)
SpecCounting == InitCounting /\ [][Next]_vars

\* ------------------------------------------------------------- observations
\* the sequence s as a multiset
BagOfSeq(s) ==
  [v \in {s[i] : i \in DOMAIN s} |-> Cardinality({i \in DOMAIN s : s[i] = v})]

\* the values the caller received, in order
DeliveredValues == [i \in DOMAIN delivered |-> delivered[i].val]

\* the multiset M the sources of the merge emit together
EmittedBag ==
  LET P == {p \in UsedChans(args) \X (1..MaxElems) : p[2] <= Len(source[p[1]])}
  IN [v \in {source[p[1]][p[2]] : p \in P}
        |-> Cardinality({p \in P : source[p[1]][p[2]] = v})]

\* the merge was set up: FanIn passed the configuration check
Merging == output = "made"

\* the workers of the merge
Merged == 1..Len(args)

\* no channel stands at two argument positions
DistinctSources ==
  \A i, j \in 1..Len(args) : (i # j /\ args[i].kind = "chan") => args[i].ch # args[j].ch

\* the multiset of the values the caller received
DeliveredBag == BagOfSeq(DeliveredValues)

\* the elements of channel c reached the caller in the order c emitted them
InOrder(c) ==
  \A i, j \in DOMAIN delivered :
    (i < j /\ delivered[i].ch = c /\ delivered[j].ch = c) => delivered[i].idx < delivered[j].idx

\* a merge of the single source c ran to the end: what the caller received is
\* what c emitted, in order
SingleSourceExact ==
  (Len(args) = 1 /\ outClosed /\ ~done) => DeliveredValues = source[args[1].ch]

\* argument i is one the configuration check has to reject
Offending(i) ==
  \/ args[i].kind # "chan"
  \/ args[i].dir = SendDir
  \/ args[1].kind = "chan" /\ ChanElem(args[i].ch) # ChanElem(args[1].ch)

\* ------------------------------------------------------------------ claims

\* C1: once the done channel is closed the output channel is eventually
\* closed, also when input channels never close, and after the output is
\* closed the caller receives no further element.
C1_CancelClosesOutput ==
  /\ (done /\ Merging) ~> outClosed
  /\ [][outClosed => delivered' = delivered]_vars

\* C2: when done is never closed, the caller drains the output and all input
\* channels close, the values received are exactly the multiset M the sources
\* emitted, nothing lost and nothing duplicated, and the output then closes:
\* the caller's next receive reports closed.
C2_DrainedEqualsEmitted ==
  /\ []((outClosed /\ ~done) => DeliveredBag = EmittedBag)
  /\ Merging ~> (done \/ (outClosed /\ lastRead = "closed"))

C2_Witness ==
  /\ outClosed /\ ~done /\ lastRead = "closed"
  /\ Len(args) = 2
  /\ Len(delivered) >= 3
  /\ DeliveredBag = EmittedBag

\* C3: while done is not closed and at least one input channel of the merge
\* is open, the output channel is not closed.
C3_ClosesOnlyWhenAllClosedOrDone ==
  (~done /\ \E c \in UsedChans(args) : ~chanClosed[c]) => ~outClosed

C3_Witness ==
  /\ ~done /\ ~outClosed /\ closerPc = "wait"
  /\ \E c \in UsedChans(args) : ~chanClosed[c]
  /\ \E w \in Merged : wpc[w] = "stopped"
  /\ delivered # <<>>

\* C4: when the output channel is closed every worker has left its loop and
\* signalled completion, and no worker ever sends on the closed output.
C4_NoWriteAfterClose ==
  /\ outClosed => \A w \in Merged : wpc[w] = "stopped"
  /\ \A w \in Workers : wpc[w] # "panic"

C4_Witness ==
  /\ outClosed /\ done
  /\ Len(args) = 2
  /\ delivered # <<>>
  /\ \E c \in UsedChans(args) : chanQ[c] # <<>>

\* C5: the output channel is closed at most once, it is closed only when the
\* WaitGroup counter is zero, and once the closing goroutine has finished it
\* was closed exactly once.
C5_ClosedOnceAfterCounterZero ==
  /\ closeCount \in {0, 1}
  /\ outClosed <=> closeCount = 1
  /\ closeCount = 1 => wg = 0
  /\ closerPc = "done" => closeCount = 1

C5_Witness ==
  /\ closerPc = "done" /\ closeCount = 1 /\ wg = 0
  /\ Len(args) = 2
  /\ \E c \in UsedChans(args) : chanClosed[c] /\ chanQ[c] = <<>>
  /\ \E c \in UsedChans(args) : ~chanClosed[c]

\* C6: once the done channel is closed every worker eventually stops, whether
\* it waits in the select or in the send on the output channel.
C6_CancelStopsWorkers ==
  (done /\ Merging) ~> \A w \in Merged : wpc[w] = "stopped"

\* C7 as stated: for every input channel, the elements the caller received
\* from it arrived in the order the channel emitted them, and a single source
\* that closes is received exactly, in order.
C7_OrderWithinSource ==
  /\ \A c \in Chans : InOrder(c)
  /\ SingleSourceExact

\* C7 amended: the same, for a merge in which no channel stands at two
\* argument positions.
C7_OrderWithinDistinctSource ==
  DistinctSources => ((\A c \in Chans : InOrder(c)) /\ SingleSourceExact)

C7_Witness ==
  /\ DistinctSources
  /\ Len(args) = 2
  /\ Len(delivered) >= 3
  /\ delivered[1].ch # delivered[2].ch
  /\ delivered[1].ch = delivered[3].ch

\* C8: while done is not closed and the caller keeps receiving, every element
\* the input channels carry is eventually received by the caller, whether or
\* not the input channels are ever closed.
C8_EveryElementDelivered ==
  Merging ~>
    (done \/ \A c \in UsedChans(args) : \A i \in 1..Len(source[c]) :
               \E k \in DOMAIN delivered : delivered[k].ch = c /\ delivered[k].idx = i)

C8_Witness ==
  /\ ~done
  /\ \A c \in Chans : ~chanClosed[c]
  /\ Len(delivered) >= 3
  /\ DeliveredBag = EmittedBag

\* C9: FanIn called with no channel panics: it returns no output channel and
\* starts neither a worker nor the closing goroutine.
C9_NoChannelsPanics ==
  (Len(args) = 0 /\ fanPc # "call") =>
    /\ fanPc = "panicked"
    /\ err.reason = "noChannels"
    /\ output = "none"
    /\ spawned = 0
    /\ \A w \in Workers : wpc[w] = "none"
    /\ closerPc = "none"

C9_Witness == Len(args) = 0 /\ fanPc = "panicked"

\* C10: FanIn panics whenever some argument, at whatever position, is no
\* channel, is a send-only channel or has an element type other than the
\* first argument's.
C10_OffendingArgumentPanics ==
  ((\E i \in 1..Len(args) : Offending(i)) /\ fanPc # "call") => fanPc = "panicked"

C10_Witness ==
  /\ fanPc = "panicked"
  /\ Len(args) = 2
  /\ ~Offending(1)
  /\ Offending(2)

\* C11: a FanIn that panicked on its configuration has created no output
\* channel, added nothing to the WaitGroup, launched no worker and no closing
\* goroutine, and received from no input channel: every channel still holds
\* what it held at the call, even those of the arguments that were valid.
C11_ErrorLeavesNoMergeState ==
  fanPc = "panicked" =>
    /\ output = "none"
    /\ ~outClosed
    /\ wg = 0
    /\ spawned = 0
    /\ \A w \in Workers : wpc[w] = "none" /\ inChan[w] = 0 /\ held[w] = NoElem
    /\ closerPc = "none"
    /\ chanQ = source
    /\ \A c \in Chans : taken[c] = 0
    /\ delivered = <<>>
    /\ handle = "none"

\* FanIn panicked on its second argument; the first was a valid channel
\* that holds elements, and its owner has closed it meanwhile
C11_Witness ==
  /\ fanPc = "panicked"
  /\ Len(args) = 2
  /\ err.index = 2
  /\ ~Offending(1)
  /\ source[args[1].ch] # <<>>
  /\ chanClosed[args[1].ch]
  /\ done

\* an argument list of at least one value, each a channel that can be
\* received from, each of the element type of the first
Acceptable(as) ==
  /\ Len(as) >= 1
  /\ \A i \in 1..Len(as) :
       /\ as[i].kind = "chan"
       /\ as[i].dir \in {BothDir, RecvDir}
       /\ ChanElem(as[i].ch) = ChanElem(as[1].ch)

\* C12: FanIn gets past its configuration check exactly when the argument
\* list is non-empty and every argument is a channel supporting receive whose
\* element type is that of the first; receive-only and bidirectional
\* channels of one element type may be mixed.
C12_SucceedsIffAcceptable ==
  fanPc # "call" => (fanPc # "panicked" <=> Acceptable(args))

\* FanIn returned for a bidirectional and a receive-only channel of ints
C12_Witness ==
  /\ fanPc = "returned"
  /\ Len(args) = 2
  /\ {args[1].dir, args[2].dir} = {BothDir, RecvDir}
  /\ Merging

\* C13: the typed SelectFunc and reflectiveSelectFunc are interchangeable.
\* Whatever one invocation of either does to its worker, its input channel
\* and the element it holds, the other can do in the same state, so both
\* allow the same deliveries, the same closure and the same final multiset:
\* every step of a typed SelectFunc is a step the cases of
\* reflectiveSelectFunc allow, and the other way round.
C13_StrategiesInterchangeable ==
  [][\A w \in Workers :
       /\ ClosureSelectFunc(w) => ReflectCases(w)
       /\ reflectiveSelectFunc(w) => ClosureCases(w)]_vars

\* a worker running reflectiveSelectFunc is in its loop after an element was
\* delivered, with done closed and a further element to receive: both cases
\* are ready
C13_Witness ==
  \E w \in Workers :
    /\ loopBody[w] = "reflect"
    /\ wpc[w] = "loop"
    /\ done
    /\ CanReceive(inChan[w])
    /\ delivered # <<>>

\* every worker FanIn was to launch runs and has stopped
AllWorkersStopped ==
  /\ Merging
  /\ spawned = Len(args)
  /\ \A w \in Merged : wpc[w] = "stopped"

\* C14: the output channel is closed only when every worker has stopped, and
\* once every worker has stopped the output channel is eventually closed.
C14_ClosedIffAllStopped ==
  /\ [](outClosed => AllWorkersStopped)
  /\ AllWorkersStopped ~> outClosed

\* both workers have stopped, one on done and one on its closed channel, and
\* the closing goroutine is about to close the output
C14_Witness ==
  /\ AllWorkersStopped
  /\ Len(args) = 2
  /\ closerPc = "close"
  /\ ~outClosed
  /\ done
  /\ \E c \in UsedChans(args) : chanClosed[c]

\* C15: in every state the multiset of values the caller received is
\* contained in the multiset of values the input channels were loaded with,
\* and when no input channel carries an element the closed output has
\* delivered none.
C15_DeliveredWithinEmitted ==
  /\ DeliveredBag \sqsubseteq EmittedBag
  /\ (outClosed /\ TotalLen(source) = 0) => (delivered = <<>> /\ lastRead # "element")

\* two input channels that carry nothing were closed, the output closed and
\* the caller has seen the closure
C15_Witness ==
  /\ Len(args) = 2
  /\ TotalLen(source) = 0
  /\ \A c \in UsedChans(args) : chanClosed[c]
  /\ ~done
  /\ outClosed
  /\ lastRead = "closed"

\* a step of FanIn, of one of its workers or of its closing goroutine
EngineStep ==
  \/ FanInStep
  \/ \E w \in Workers : WorkerStep(w) \/ Send(w)
  \/ CloserStep

\* C16: no step of FanIn, of a worker or of the closing goroutine closes an
\* input channel, closes the done channel or puts an element on an input
\* channel: such a step leaves every input channel as it was or with its
\* first element removed.
C16_EngineOnlyReadsSources ==
  [][EngineStep =>
       /\ chanClosed' = chanClosed
       /\ done' = done
       /\ source' = source
       /\ \A c \in Chans : chanQ'[c] = chanQ[c] \/ (chanQ[c] # <<>> /\ chanQ'[c] = Tail(chanQ[c]))]_vars

\* the merge has run to its end on done, with an element delivered, and
\* no input channel is closed
C16_Witness ==
  /\ closerPc = "done"
  /\ Len(args) = 2
  /\ delivered # <<>>
  /\ done
  /\ \A c \in Chans : ~chanClosed[c]

\* C17: the output channel is closed by the closing goroutine alone, an
\* element reaches it only by the send of a worker, and the channel the
\* caller gets back is receive-only, so the caller can neither send on it nor
\* close it.
C17_OutputWrittenByEngineOnly ==
  /\ [][/\ outClosed' # outClosed => CloserClose
        /\ delivered' # delivered => \E w \in Workers : Send(w)]_vars
  /\ [](fanPc = "returned" => handle = RecvDir)

\* the caller holds the returned channel, has received every element of the
\* two input channels from it and has seen it closed
C17_Witness ==
  /\ fanPc = "returned"
  /\ handle = RecvDir
  /\ Len(args) = 2
  /\ Len(delivered) = MaxElems
  /\ outClosed
  /\ lastRead = "closed"

\* C18: a worker running the SelectFunc of the README's usage section,
\* which asserts `in` to be a bidirectional channel, on a bidirectional input
\* channel does not fail on the handle it is given.
C18_ReadmeStrategyForwards ==
  \A w \in Workers :
    (loopBody[w] = "readme" /\ args[w].dir = BothDir) => wpc[w] # "panic"

\* C19: a closed output channel stays closed, a receive on it is always
\* possible for the caller that holds it, and every such receive reports
\* closure and yields no element.
C19_ClosureTerminal ==
  /\ [][outClosed => /\ outClosed'
                     /\ delivered' = delivered
                     /\ lastRead' \in {lastRead, "closed"}]_vars
  /\ []((outClosed /\ ReaderReady) => ENABLED ReadClosed)

\* the caller received an element, then saw the closure, with done closed
\* and an input channel still open
C19_Witness ==
  /\ outClosed
  /\ lastRead = "closed"
  /\ delivered # <<>>
  /\ done
  /\ \E c \in UsedChans(args) : ~chanClosed[c]

\* C20: one invocation of a SelectFunc.  It returns true from its select
\* only if done is closed or its input channel is closed and drained, and
\* then it has received and sent nothing.  Otherwise it has received exactly
\* the next element of its input channel, blocks until the caller receives
\* exactly that element from the output, and returns false.
C20_SelectFuncOutcome ==
  [][\A w \in Workers :
       /\ (wpc[w] = "loop" /\ wpc'[w] = "cancelled") =>
            (done /\ chanQ' = chanQ /\ held' = held /\ delivered' = delivered)
       /\ (wpc[w] = "loop" /\ wpc'[w] = "exhausted") =>
            (chanClosed[inChan[w]] /\ chanQ[inChan[w]] = <<>>
               /\ chanQ' = chanQ /\ held' = held /\ delivered' = delivered)
       /\ (wpc[w] = "loop" /\ wpc'[w] = "send") =>
            /\ chanQ[inChan[w]] # <<>>
            /\ chanQ' = [chanQ EXCEPT ![inChan[w]] = Tail(@)]
            /\ held'[w].ch = inChan[w]
            /\ held'[w].val = Head(chanQ[inChan[w]])
            /\ delivered' = delivered
       /\ wpc[w] = "loop" => wpc'[w] \in {"loop", "cancelled", "exhausted", "send"}
       /\ wpc[w] = "send" =>
            \/ wpc'[w] = "send" /\ held'[w] = held[w]
            \/ /\ wpc'[w] = "loop"
               /\ delivered' = Append(delivered, held[w])
               /\ chanQ' = chanQ]_vars

\* invocations of all three outcomes: an element was delivered, one worker
\* has returned true on done and the other on its closed input channel
C20_Witness ==
  /\ delivered # <<>>
  /\ \E w \in Merged : wpc[w] = "cancelled"
  /\ \E w \in Merged : wpc[w] = "exhausted"

\* C21: a worker that has stopped stays stopped.  The step that stops it is
\* the only one of its steps that lowers the WaitGroup counter, and lowers it
\* by one; the counter is lowered by no other step.  A stopped worker holds no
\* element and takes no further step: it receives from no input channel and
\* sends nothing on the output.
C21_StoppedTerminal ==
  /\ [][/\ \A w \in Workers :
             /\ wpc[w] = "stopped" => wpc'[w] = "stopped"
             /\ wpc[w] = "stopped" => ~(WorkerStep(w) \/ Send(w))
             /\ (wpc[w] # "stopped" /\ wpc'[w] = "stopped") => wg' = wg - 1
        /\ wg' < wg => Cardinality({w \in Workers : wpc[w] # "stopped" /\ wpc'[w] = "stopped"}) = 1]_vars
  /\ [](\A w \in Workers : wpc[w] = "stopped" => held[w] = NoElem)

\* one worker has stopped while the other, after a delivery, is sending the
\* next element
C21_Witness ==
  /\ \E w \in Merged : wpc[w] = "stopped"
  /\ \E w \in Merged : wpc[w] = "send"
  /\ delivered # <<>>

\* the workers of the merge that have not run wg.Done(), launched or not
NotDone == {w \in Merged : wpc[w] # "stopped"}

\* C22: the WaitGroup counter is zero until the output channel is made and is
\* set to the number of channels before any goroutine is launched; from then
\* on it equals the number of workers that have not run wg.Done(), it is never
\* negative, and wg.Wait() has returned only if every worker has stopped.
C22_CounterCountsRunningWorkers ==
  /\ ~Merging => (wg = 0 /\ spawned = 0 /\ closerPc = "none")
  /\ Merging => wg = Cardinality(NotDone)
  /\ wg >= 0
  /\ closerPc \in {"close", "done"} => NotDone = {}

\* two channels: one worker has stopped, the other is sending, the closing
\* goroutine waits on a counter of one
C22_Witness ==
  /\ Len(args) = 2
  /\ wg = 1
  /\ closerPc = "wait"
  /\ \E w \in Merged : wpc[w] = "send"

\* the launched workers whose inChan is channel c
Readers(c) == {w \in Workers : wpc[w] # "none" /\ inChan[w] = c}

\* FanIn launches one worker per argument, in order, then the closing
\* goroutine; worker i holds argument i and its steps touch no other channel
OneWorkerPerArgument ==
  /\ [](/\ spawned <= Len(args)
        /\ closerPc # "none" => spawned = Len(args)
        /\ \A w \in Workers :
             IF w <= spawned
               THEN wpc[w] # "none" /\ inChan[w] = args[w].ch
               ELSE wpc[w] = "none")
  /\ [][\A w \in Merged :
          (WorkerStep(w) \/ Send(w)) =>
            \A c \in Chans : c # args[w].ch => chanQ'[c] = chanQ[c]]_vars

\* C23 as stated: k arguments give k workers and one closing goroutine, worker
\* i reads argument i alone, and every channel of the merge has one reader.
C23_OneReaderPerSource ==
  /\ OneWorkerPerArgument
  /\ [](closerPc # "none" => \A c \in UsedChans(args) : Cardinality(Readers(c)) = 1)

\* C23: k arguments give k workers and one closing goroutine, worker i reads
\* argument i alone, and when no channel stands at two argument positions
\* every channel of the merge has one reader.
C23_OneReaderPerDistinctSource ==
  /\ OneWorkerPerArgument
  /\ []((closerPc # "none" /\ DistinctSources) =>
          \A c \in UsedChans(args) : Cardinality(Readers(c)) = 1)

\* two distinct channels, each of which its worker has received from
C23_Witness ==
  /\ Len(args) = 2
  /\ DistinctSources
  /\ closerPc # "none"
  /\ taken[args[1].ch] > 0
  /\ taken[args[2].ch] > 0

\* C24: with done closed, a worker in its loop whose input channel has an
\* element ready can return true without forwarding and can as well receive
\* the element; a worker sending an element to a receiving caller can complete
\* the send and loop again.  Nothing else limits the elements delivered after
\* close(done): all of them can be.
C24_BothOutcomesAfterDone ==
  \A w \in Workers :
    /\ (done /\ wpc[w] = "loop" /\ chanQ[inChan[w]] # <<>>) =>
         /\ ENABLED (WorkerStep(w) /\ wpc'[w] = "cancelled")
         /\ ENABLED (WorkerStep(w) /\ wpc'[w] = "send")
    /\ (done /\ wpc[w] = "send" /\ ReaderReady /\ ~outClosed) =>
         ENABLED (Send(w) /\ wpc'[w] = "loop" /\ afterDone' = afterDone + 1)

\* every element of the model's bound was emitted by one channel and
\* delivered after close(done)
C24_Witness ==
  /\ Len(args) = 1
  /\ Merging
  /\ Len(source[args[1].ch]) = MaxElems
  /\ afterDone = MaxElems

\* the first argument the configuration check has to reject
FirstOffending ==
  CHOOSE i \in 1..Len(args) : Offending(i) /\ \A j \in 1..(i - 1) : ~Offending(j)

\* the reason to give for argument i: not a channel, before cannot be
\* received from, before element type
ReasonFor(i) ==
  IF args[i].kind # "chan" THEN "notChannel"
  ELSE IF args[i].dir = SendDir THEN "noReceive"
  ELSE "elementType"

\* C25: the panic of a rejected, non-empty argument list names the lowest
\* index among the offending arguments and, for that argument, the first
\* reason that applies in the order: not a channel, cannot be received from,
\* element type differs from that of the first argument.
C25_LowestIndexFixedOrder ==
  (fanPc = "panicked" /\ Len(args) >= 1) =>
    /\ err.index = FirstOffending
    /\ err.reason = ReasonFor(FirstOffending)

\* C26: when the caller keeps receiving from the output and no select passes
\* over a ready done case forever, closing done leads to every worker having
\* stopped and the output being closed, whether or not the input channels
\* still hold elements or are ever closed.
C26_CancelStopsUnderDrain ==
  (done /\ Merging) ~> (outClosed /\ \A w \in Merged : wpc[w] = "stopped")

\* done was closed while two open input channels held elements; the workers
\* stopped and the output closed with an element left behind
C26_Witness ==
  /\ done
  /\ outClosed
  /\ Len(args) = 2
  /\ \A c \in UsedChans(args) : ~chanClosed[c]
  /\ \E c \in UsedChans(args) : chanQ[c] # <<>>
  /\ lastRead = "closed"

TakenTotal == taken[1] + taken[2] + taken[3]

\* the workers that are sending an element
Sending == {w \in Workers : wpc[w] = "send"}

\* the workers that were launched and have not stopped
Running == {w \in Workers : wpc[w] \notin {"none", "stopped"}}

\* C28: a worker holds an element exactly while it is sending it and receives
\* the next one only when it holds none; the elements received from the input
\* channels and not yet received by the caller are those the sending workers
\* hold, one each, so they are at most as many as the running workers and none
\* waits in the output channel.
C28_OneInFlightPerWorker ==
  /\ [](/\ \A w \in Workers : held[w] # NoElem <=> wpc[w] = "send"
        /\ TakenTotal - Len(delivered) = Cardinality(Sending)
        /\ Sending \subseteq Running
        /\ TakenTotal - Len(delivered) <= Cardinality(Running))
  /\ [][\A w \in Workers :
          (WorkerStep(w) /\ chanQ' # chanQ) => (held[w] = NoElem /\ held'[w] # NoElem)]_vars

\* both workers hold an element at once, after one was delivered
C28_Witness ==
  /\ Cardinality(Sending) = 2
  /\ Len(delivered) = 1
  /\ TakenTotal = MaxElems

\* what the caller received of channel c, in order
DeliveredFrom(c) == SelectSeq(delivered, LAMBDA e : e.ch = c)

\* C29: when no channel stands at two argument positions, what the caller
\* has received of one input channel is in every state, done closed or not,
\* an initial part of what that channel was loaded with; a worker whose
\* SelectFunc returned true holds no element, and everything it received
\* from its channel has been delivered.
C29_PrefixPerSource ==
  /\ DistinctSources =>
       \A c \in Chans :
         /\ Len(DeliveredFrom(c)) <= Len(source[c])
         /\ \A k \in 1..Len(DeliveredFrom(c)) :
              DeliveredFrom(c)[k].idx = k /\ DeliveredFrom(c)[k].val = source[c][k]
  /\ \A w \in Workers :
       wpc[w] \in {"cancelled", "exhausted", "stopped"} =>
         /\ held[w] = NoElem
         /\ DistinctSources => taken[inChan[w]] = Len(DeliveredFrom(inChan[w]))

\* two distinct channels, done closed, the output closed: of one channel the
\* caller has received the first element and not the rest
C29_Witness ==
  /\ DistinctSources
  /\ Len(args) = 2
  /\ done
  /\ outClosed
  /\ \E c \in UsedChans(args) :
       Len(DeliveredFrom(c)) >= 1 /\ Len(DeliveredFrom(c)) < Len(source[c])

\* FanIn runs on one channel given at both argument positions
SameSourceTwice ==
  /\ Merging
  /\ Len(args) = 2
  /\ args[1].ch = args[2].ch

\* C30: when one channel is given at two argument positions, two workers
\* receive from it.  Each of its elements is received by one worker, the
\* two never hold the same element, no element reaches the caller twice, and
\* when the output has closed without done the caller has received the
\* multiset of elements the channel was loaded with.
C30_SharedSourceDeliversOnce ==
  SameSourceTwice =>
    /\ closerPc # "none" => Readers(args[1].ch) = {1, 2}
    /\ taken[args[1].ch] + Len(chanQ[args[1].ch]) = Len(source[args[1].ch])
    /\ \A k \in DOMAIN delivered :
         /\ delivered[k].ch = args[1].ch
         /\ delivered[k].idx \in 1..taken[args[1].ch]
         /\ delivered[k].val = source[args[1].ch][delivered[k].idx]
         /\ \A w \in Sending : held[w].idx # delivered[k].idx
    /\ \A i, j \in DOMAIN delivered : i # j => delivered[i].idx # delivered[j].idx
    /\ \A v, w \in Sending : v # w => held[v].idx # held[w].idx
    /\ (outClosed /\ ~done) => DeliveredBag = EmittedBag

\* the channel given twice was loaded to the bound and closed, its second
\* element reached the caller before its first, and the output closed
C30_Witness ==
  /\ SameSourceTwice
  /\ Len(delivered) = MaxElems
  /\ delivered[1].idx = 2
  /\ outClosed
  /\ ~done

\* worker w is in its loop or past it
InLoop(w) == wpc[w] \notin {"none", "start"}

\* C31: a worker runs reflectiveSelectFunc exactly when Config.SelectFunc is
\* nil, and the SelectFunc of the Config otherwise.  The choice is made
\* before the worker's first invocation, when it holds no element; from
\* then on its loopBody, its inChan and the direction of that handle do not
\* change, nor does the Config.
C31_FallbackIffNoSelectFunc ==
  /\ [](\A w \in Workers :
          /\ wpc[w] = "start" => (loopBody[w] = selectFunc /\ held[w] = NoElem)
          /\ InLoop(w) =>
               /\ loopBody[w] = "reflect" <=> selectFunc = "nil"
               /\ loopBody[w] # "reflect" => loopBody[w] = selectFunc
               /\ inChan[w] = args[w].ch
               /\ inDir[w] = RecvDir)
  /\ [][/\ selectFunc' = selectFunc
        /\ \A w \in Workers :
             InLoop(w) =>
               /\ loopBody'[w] = loopBody[w]
               /\ inChan'[w] = inChan[w]
               /\ inDir'[w] = inDir[w]]_vars

\* a Config without SelectFunc: both workers run the fallback, an element
\* was delivered and a worker is back in its loop
C31_Witness ==
  /\ selectFunc = "nil"
  /\ Len(args) = 2
  /\ \A w \in Merged : loopBody[w] = "reflect"
  /\ delivered # <<>>
  /\ \E w \in Merged : wpc[w] = "loop"

====
